---------------------------- MODULE Spec2Model ----------------------------
(***************************************************************************)
(* Model of src/src/code.py of the Signaloid C0-microSD Cardputer demo:    *)
(* the SD/SPI block transport adapter (_read, _write), the fixed-width     *)
(* codec (pack_doubles, unpack_doubles, pack_unsigned_integers) and the    *)
(* concise-uncertainty parser (parse_tolerance_value), and main(), the     *)
(* status query and the command loop that uses them.                       *)
(*                                                                         *)
(* Every component has a specification of its own.  An action is one call  *)
(* of the function it is named after: it draws the arguments from bounded  *)
(* sets and records the call (arguments and outcome) in the component's    *)
(* variable; the calls are independent of each other, so each is made from *)
(* the initial state.  A raised Python exception is the outcome            *)
(* [ok |-> FALSE, err |-> <exception class>].  main() is a process with a  *)
(* program counter; each of its actions is one statement group of main.    *)
(***************************************************************************)
EXTENDS Integers, Sequences, FiniteSets

VARIABLES
    sd_calls,   \* calls the adapter's last operation made on self.sd
    xfer,       \* the adapter's last operation: its arguments and result
    byteorder,  \* the platform's native byte order (struct without prefix)
    packed,     \* the last pack_doubles call
    unpacked,   \* the last unpack_doubles call, made on packed's buffer
    upacked,    \* the last pack_unsigned_integers call
    parsed,     \* the last parse_tolerance_value call
    pc,             \* main: the statement group to run next
    configuration,  \* main: C0_microSD.configuration after get_status
    capacity,       \* main: C0_microSD.MOSI_BUFFER_SIZE_BYTES
    command,        \* main: the line input() returned
    operands,       \* main: [arg_a_min, arg_a_max, arg_b_min, arg_b_max]
    mosi_data,      \* main: the operand buffer pack_doubles returned (data)
    result_buffer,  \* main: the buffer calculate_command returned
    payload,        \* main: result_buffer after the two slices
    opcode,         \* main: the opcode passed to calculate_command
    error,          \* main: the exception the command raised, and where
    steps,          \* main: the steps made on the device and the parser
    ncmd,           \* main: the number of the command the loop is at
    printed         \* main: what the last print showed

main_vars == <<pc, configuration, capacity, command, operands, mosi_data,
               result_buffer, payload, opcode, error, steps, ncmd, printed>>

vars == <<sd_calls, xfer, byteorder, packed, unpacked, upacked, parsed, main_vars>>

None == [fn |-> "none"]

\* main() has not been called.
MainNotStarted ==
    /\ pc = "idle"
    /\ configuration = None
    /\ capacity = 0
    /\ command = None
    /\ operands = None
    /\ mosi_data = None
    /\ result_buffer = None
    /\ payload = None
    /\ opcode = None
    /\ error = None
    /\ steps = <<>>
    /\ ncmd = 0
    /\ printed = ""

(***************************************************************************)
(* Bounds of the model.                                                    *)
(***************************************************************************)
MaxByteCount == 1030    \* read sizes and write lengths 0..MaxByteCount
MaxOffset == 1          \* block offsets 0..MaxOffset
MaxSeed == 1            \* device contents / data patterns 0..MaxSeed
MaxValues == 2          \* pack_doubles / pack_unsigned_integers list length
MaxSize == 18           \* target buffer sizes 0..MaxSize
MaxCount == 3           \* unpack_doubles counts 0..MaxCount
MaxTokLen == 5          \* length of the enumerated tolerance tokens
MaxCommands == 2        \* commands the loop of main is followed for
MaxFrameRest == 6       \* bytes of a result buffer after its length prefix

(***************************************************************************)
(* Python helpers.                                                         *)
(***************************************************************************)
\* bytes(n): n zero bytes.
Zeros(n) == [i \in 1..n |-> 0]

\* s[lo:hi] for 0 <= lo, 0 <= hi: the end is clamped to len(s).
PySlice(s, lo, hi) == SubSeq(s, lo + 1, IF hi < Len(s) THEN hi ELSE Len(s))

ValueError == [ok |-> FALSE, err |-> "ValueError"]

(***************************************************************************)
(* Block transport adapter: C0microSDSignaloidSoCInterfaceSDSPI.           *)
(***************************************************************************)
BlockSize == 512

\* The device: byte i of block `block` under contents `seed`.
BlockByte(seed, block, i) == (seed * 101 + block * 37 + i) % 256

\* self.sd.read_blocks(offset, num_blocks): num_blocks whole blocks.
read_blocks(seed, offset, num_blocks) ==
    [k \in 1..(num_blocks * BlockSize) |->
        BlockByte(seed, offset + ((k - 1) \div BlockSize), (k - 1) % BlockSize)]

\* A mutant of num_blocks: the block count by truncating division.
num_blocks_truncated(bytes) == bytes \div BlockSize

\* The block count _read asks for.
num_blocks(bytes) ==
    IF bytes % BlockSize = 0
    THEN bytes \div BlockSize
    ELSE bytes \div BlockSize + 1

\* _read(offset, bytes) on a device holding `seed`: the call it makes and
\* what it returns.
_read(seed, offset, bytes) ==
    LET n == num_blocks(bytes)
        data == read_blocks(seed, offset, n)
    IN  [calls |-> <<[op |-> "read_blocks", offset |-> offset, count |-> n]>>,
         ret |-> PySlice(data, 0, bytes)]

\* A mutant of remaining_bytes: no padding for block-aligned data.
remaining_bytes_aligned(data) == (BlockSize - (Len(data) % BlockSize)) % BlockSize

\* The number of zero bytes _write appends.
remaining_bytes(data) == BlockSize - (Len(data) % BlockSize)

\* _write(offset, data): the call it makes; it returns what write_blocks
\* reports (`written`).
_write(offset, data, written) ==
    LET padded == data \o Zeros(remaining_bytes(data))
    IN  [calls |-> <<[op |-> "write_blocks", offset |-> offset, data |-> padded]>>,
         ret |-> written]

\* The data buffers written: `len` non-zero bytes of pattern `pat`.
DataBuffer(pat, len) == [i \in 1..len |-> ((pat * 7 + i) % 255) + 1]

Read ==
    /\ xfer = None
    /\ \E seed \in 0..MaxSeed, offset \in 0..MaxOffset, bytes \in 0..MaxByteCount :
        LET r == _read(seed, offset, bytes)
        IN  /\ sd_calls' = r.calls
            /\ xfer' = [fn |-> "_read", seed |-> seed, offset |-> offset,
                        bytes |-> bytes, ret |-> r.ret]
            /\ UNCHANGED <<byteorder, packed, unpacked, upacked, parsed, main_vars>>

Write ==
    /\ xfer = None
    /\ \E pat \in 0..MaxSeed, offset \in 0..MaxOffset, len \in 0..MaxByteCount,
       accepted \in BOOLEAN :
        LET data == DataBuffer(pat, len)
            w == _write(offset, data, 0)
            r == _write(offset, data,
                        IF accepted THEN Len(w.calls[1].data) ELSE 0)
        IN  /\ sd_calls' = r.calls
            /\ xfer' = [fn |-> "_write", offset |-> offset, data |-> data,
                        ret |-> r.ret]
            /\ UNCHANGED <<byteorder, packed, unpacked, upacked, parsed, main_vars>>

InitTransport ==
    /\ sd_calls = <<>>
    /\ xfer = None
    /\ byteorder = "little"
    /\ packed = None
    /\ unpacked = None
    /\ upacked = None
    /\ parsed = None
    /\ MainNotStarted

NextTransport == Read \/ Write

SpecTransport == InitTransport /\ [][NextTransport]_vars

(***************************************************************************)
(* C1: read(offset, byteCount) makes one readBlocks(offset, n) call with   *)
(* n = ceil(byteCount / 512) (n = byteCount / 512 for a multiple of 512,   *)
(* 0 for 0) and returns exactly the first byteCount bytes of the n * 512   *)
(* bytes the storage returned.                                             *)
(***************************************************************************)
C1_ReadCeilAndPrefix ==
    xfer.fn = "_read" =>
        LET n == sd_calls[1].count
            raw == read_blocks(xfer.seed, xfer.offset, n)
        IN  /\ Len(sd_calls) = 1
            /\ sd_calls[1].op = "read_blocks"
            /\ sd_calls[1].offset = xfer.offset
            /\ n * 512 >= xfer.bytes
            /\ n * 512 < xfer.bytes + 512
            /\ (xfer.bytes % 512 = 0 => n * 512 = xfer.bytes)
            /\ Len(raw) = n * 512
            /\ Len(xfer.ret) = xfer.bytes
            /\ \A i \in 1..xfer.bytes : xfer.ret[i] = raw[i]

C1_Witness ==
    /\ xfer.fn = "_read"
    /\ xfer.bytes = 513
    /\ sd_calls[1].count = 2
    /\ Len(xfer.ret) = 513

(***************************************************************************)
(* C2: write(offset, data) passes to writeBlocks(offset, .) data followed  *)
(* by zero bytes, of total length data.length + (512 - data.length mod     *)
(* 512): a multiple of 512, >= data.length, and one full extra zero block  *)
(* when data.length is already a multiple of 512.                          *)
(***************************************************************************)
C2_WritePadding ==
    xfer.fn = "_write" =>
        LET buf == sd_calls[1].data
            len == Len(xfer.data)
        IN  /\ Len(sd_calls) = 1
            /\ sd_calls[1].op = "write_blocks"
            /\ sd_calls[1].offset = xfer.offset
            /\ Len(buf) = len + (512 - (len % 512))
            /\ Len(buf) % 512 = 0
            /\ Len(buf) >= len
            /\ (len % 512 = 0 => Len(buf) = len + 512)
            /\ \A i \in 1..len : buf[i] = xfer.data[i]
            /\ \A i \in (len + 1)..Len(buf) : buf[i] = 0

C2_Witness ==
    /\ xfer.fn = "_write"
    /\ Len(xfer.data) = 512
    /\ Len(sd_calls[1].data) = 1024

(***************************************************************************)
(* Fixed-width codec: pack_doubles, unpack_doubles,                        *)
(* pack_unsigned_integers.                                                 *)
(*                                                                         *)
(* A double is its IEEE-754 binary64 fields: sign (1 bit), exp (11 bits)   *)
(* and frac (52 bits, as <<top 4 bits, byte, byte, byte, byte, byte,       *)
(* byte>>, most significant first).  A 32-bit unsigned integer is its two  *)
(* 16-bit halves, value = hi * 65536 + lo.  struct's "d" without a prefix  *)
(* uses the platform's byte order, "<I" is little-endian on every          *)
(* platform.                                                               *)
(***************************************************************************)
double_size == 8

RECURSIVE Concat(_)
Concat(seqs) == IF seqs = <<>> THEN <<>> ELSE Head(seqs) \o Concat(Tail(seqs))

Reverse(s) == [i \in 1..Len(s) |-> s[Len(s) + 1 - i]]

\* The doubles the model packs: 0.9, -2.0, 0x0102030405060708 and a NaN.
Doubles ==
    { [sign |-> 0, exp |-> 1022, frac |-> <<12, 204, 204, 204, 204, 204, 205>>],
      [sign |-> 1, exp |-> 1024, frac |-> <<0, 0, 0, 0, 0, 0, 0>>],
      [sign |-> 0, exp |-> 16, frac |-> <<2, 3, 4, 5, 6, 7, 8>>],
      [sign |-> 0, exp |-> 2047, frac |-> <<8, 0, 0, 0, 0, 0, 0>>] }

\* The unsigned integers the model packs: 0, 1, 0x01020304, 0xFFFFFFFF.
UInts ==
    { [hi |-> 0, lo |-> 0], [hi |-> 0, lo |-> 1],
      [hi |-> 258, lo |-> 772], [hi |-> 65535, lo |-> 65535] }

ListsOf(S, n) == UNION { [1..k -> S] : k \in 0..n }

\* The 8 bytes of a double, most significant byte first.
double_bytes_be(d) ==
    << d.sign * 128 + (d.exp \div 16), (d.exp % 16) * 16 + d.frac[1] >>
        \o Tail(d.frac)

\* struct's "d" for one value in byte order `order`.
double_bytes(order, d) ==
    IF order = "big" THEN double_bytes_be(d) ELSE Reverse(double_bytes_be(d))

\* The double held by 8 bytes in byte order `order`.
double_from_bytes(order, b) ==
    LET be == IF order = "big" THEN b ELSE Reverse(b)
    IN  [sign |-> be[1] \div 128,
         exp |-> (be[1] % 128) * 16 + (be[2] \div 16),
         frac |-> <<be[2] % 16>> \o SubSeq(be, 3, 8)]

\* struct.pack(f"{len(doubles)}d", *doubles)
struct_pack_d(order, doubles) ==
    Concat([i \in 1..Len(doubles) |-> double_bytes(order, doubles[i])])

\* A mutant of struct_unpack_d: it decodes big-endian on every platform.
struct_unpack_d_bigendian(order, count, buffer) ==
    IF Len(buffer) # double_size * count
    THEN [ok |-> FALSE, err |-> "struct.error"]
    ELSE [ok |-> TRUE,
          vals |-> [i \in 1..count |->
                        double_from_bytes("big",
                            SubSeq(buffer, double_size * (i - 1) + 1, double_size * i))]]

\* struct.unpack(f"{count}d", buffer): the buffer must have the format's size.
struct_unpack_d(order, count, buffer) ==
    IF Len(buffer) # double_size * count
    THEN [ok |-> FALSE, err |-> "struct.error"]
    ELSE [ok |-> TRUE,
          vals |-> [i \in 1..count |->
                        double_from_bytes(order,
                            SubSeq(buffer, double_size * (i - 1) + 1, double_size * i))]]

\* A mutant of struct_pack_I: most significant byte first.
struct_pack_I_bigendian(uint) ==
    Concat([i \in 1..Len(uint) |->
                << uint[i].hi \div 256, uint[i].hi % 256,
                   uint[i].lo \div 256, uint[i].lo % 256 >>])

\* struct.pack(f"<{len(uint)}I", *uint)
struct_pack_I(uint) ==
    Concat([i \in 1..Len(uint) |->
                << uint[i].lo % 256, uint[i].lo \div 256,
                   uint[i].hi % 256, uint[i].hi \div 256 >>])

\* The zero-padding and the size check pack_doubles and
\* pack_unsigned_integers share.
\* A mutant: a buffer that is too long is cut to size.
pad_to_size_truncating(buffer, size) ==
    IF Len(buffer) < size
    THEN [ok |-> TRUE, buf |-> buffer \o Zeros(size - Len(buffer))]
    ELSE [ok |-> TRUE, buf |-> PySlice(buffer, 0, size)]

\* A mutant: the padding stops one byte short of size.
pad_to_size_short(buffer, size) ==
    IF Len(buffer) < size
    THEN [ok |-> TRUE, buf |-> buffer \o Zeros(size - Len(buffer) - 1)]
    ELSE IF Len(buffer) > size
    THEN ValueError
    ELSE [ok |-> TRUE, buf |-> buffer]

pad_to_size(buffer, size) ==
    IF Len(buffer) < size
    THEN [ok |-> TRUE, buf |-> buffer \o Zeros(size - Len(buffer))]
    ELSE IF Len(buffer) > size
    THEN ValueError
    ELSE [ok |-> TRUE, buf |-> buffer]

\* A mutant of pack_doubles: it cuts the buffer to size.
pack_doubles_truncating(order, doubles, size) ==
    pad_to_size_truncating(struct_pack_d(order, doubles), size)

\* A mutant of pack_doubles: it pads one byte short.
pack_doubles_short(order, doubles, size) ==
    pad_to_size_short(struct_pack_d(order, doubles), size)

pack_doubles(order, doubles, size) ==
    pad_to_size(struct_pack_d(order, doubles), size)

\* A mutant of unpack_doubles: the buffer is not cut to expected_size.
unpack_doubles_unsliced(order, byte_buffer, count) ==
    LET expected_size == double_size * count
    IN  IF Len(byte_buffer) < expected_size
        THEN ValueError
        ELSE struct_unpack_d(order, count, byte_buffer)

unpack_doubles(order, byte_buffer, count) ==
    LET expected_size == double_size * count
    IN  IF Len(byte_buffer) < expected_size
        THEN ValueError
        ELSE struct_unpack_d(order, count, PySlice(byte_buffer, 0, expected_size))

pack_unsigned_integers(uint, size) ==
    pad_to_size(struct_pack_I(uint), size)

PackDoubles ==
    /\ packed = None
    /\ upacked = None
    /\ \E doubles \in ListsOf(Doubles, MaxValues), size \in 0..MaxSize :
        packed' = [fn |-> "pack_doubles", doubles |-> doubles, size |-> size,
                   ret |-> pack_doubles(byteorder, doubles, size)]
    /\ UNCHANGED <<sd_calls, xfer, byteorder, unpacked, upacked, parsed, main_vars>>

\* unpack_doubles on the first `cut` bytes of the buffer pack_doubles made.
UnpackDoubles ==
    /\ packed.fn = "pack_doubles"
    /\ packed.ret.ok
    /\ unpacked = None
    /\ \E cut \in 0..Len(packed.ret.buf), count \in 0..MaxCount :
        LET byte_buffer == SubSeq(packed.ret.buf, 1, cut)
        IN  unpacked' = [fn |-> "unpack_doubles", byte_buffer |-> byte_buffer,
                         count |-> count,
                         ret |-> unpack_doubles(byteorder, byte_buffer, count)]
    /\ UNCHANGED <<sd_calls, xfer, byteorder, packed, upacked, parsed, main_vars>>

PackUnsignedIntegers ==
    /\ packed = None
    /\ upacked = None
    /\ \E uint \in ListsOf(UInts, MaxValues), size \in 0..MaxSize :
        upacked' = [fn |-> "pack_unsigned_integers", uint |-> uint, size |-> size,
                    ret |-> pack_unsigned_integers(uint, size)]
    /\ UNCHANGED <<sd_calls, xfer, byteorder, packed, unpacked, parsed, main_vars>>

InitCodec ==
    /\ sd_calls = <<>>
    /\ xfer = None
    /\ byteorder \in {"little", "big"}
    /\ packed = None
    /\ unpacked = None
    /\ upacked = None
    /\ parsed = None
    /\ MainNotStarted

NextCodec == PackDoubles \/ UnpackDoubles \/ PackUnsignedIntegers

SpecCodec == InitCodec /\ [][NextCodec]_vars

(***************************************************************************)
(* C3: when 8 * len(values) > size, packDoubles(values, size) fails with a *)
(* CapacityError (Python's ValueError) and returns no buffer, truncated or *)
(* not.                                                                    *)
(***************************************************************************)
C3_PackDoublesOverflowFails ==
    (packed.fn = "pack_doubles" /\ 8 * Len(packed.doubles) > packed.size) =>
        /\ ~packed.ret.ok
        /\ packed.ret.err = "ValueError"
        /\ DOMAIN packed.ret = {"ok", "err"}

C3_Witness ==
    /\ packed.fn = "pack_doubles"
    /\ Len(packed.doubles) = 2
    /\ packed.size = 15
    /\ ~packed.ret.ok

(***************************************************************************)
(* C4: when 8 * len(values) <= size, packDoubles(values, size) returns a   *)
(* buffer of exactly size bytes: the 8-byte encodings of the values in     *)
(* input order, then zero bytes only.                                      *)
(***************************************************************************)
C4_PackDoublesLayout ==
    (packed.fn = "pack_doubles" /\ 8 * Len(packed.doubles) <= packed.size) =>
        /\ packed.ret.ok
        /\ Len(packed.ret.buf) = packed.size
        /\ \A i \in 1..Len(packed.doubles) :
              SubSeq(packed.ret.buf, 8 * (i - 1) + 1, 8 * i)
                  = double_bytes(byteorder, packed.doubles[i])
        /\ \A k \in (8 * Len(packed.doubles) + 1)..packed.size :
              packed.ret.buf[k] = 0

C4_Witness ==
    /\ packed.fn = "pack_doubles"
    /\ Len(packed.doubles) = 2
    /\ packed.doubles[1] # packed.doubles[2]
    /\ packed.size = 18
    /\ packed.ret.ok
    /\ Len(packed.ret.buf) = 18

(***************************************************************************)
(* C5: round trip: for size >= 8 * len(values),                            *)
(* unpackDoubles(packDoubles(values, size), len(values)) is values, in the *)
(* same order, whatever the zero padding.  (Equality is that of the        *)
(* binary64 representation, under which a NaN equals itself.)              *)
(***************************************************************************)
C5_RoundTrip ==
    (/\ unpacked.fn = "unpack_doubles"
     /\ unpacked.byte_buffer = packed.ret.buf
     /\ unpacked.count = Len(packed.doubles)) =>
        /\ unpacked.ret.ok
        /\ unpacked.ret.vals = packed.doubles

C5_Witness ==
    /\ unpacked.fn = "unpack_doubles"
    /\ unpacked.byte_buffer = packed.ret.buf
    /\ Len(packed.doubles) = 2
    /\ packed.doubles[1] # packed.doubles[2]
    /\ packed.size = 18
    /\ unpacked.count = 2
    /\ unpacked.ret.ok
    /\ unpacked.ret.vals = packed.doubles

(***************************************************************************)
(* C6: unpackDoubles(buffer, count) fails with a CapacityError exactly     *)
(* when buffer.length < 8 * count; otherwise it returns count values, the  *)
(* i-th decoded from bytes [8i, 8i + 8) of the buffer, whatever the bytes  *)
(* from 8 * count on.                                                      *)
(***************************************************************************)
C6_UnpackDoubles ==
    unpacked.fn = "unpack_doubles" =>
        IF Len(unpacked.byte_buffer) < 8 * unpacked.count
        THEN unpacked.ret = ValueError
        ELSE /\ unpacked.ret.ok
             /\ Len(unpacked.ret.vals) = unpacked.count
             /\ \A i \in 1..unpacked.count :
                   unpacked.ret.vals[i] =
                       double_from_bytes(byteorder,
                           SubSeq(unpacked.byte_buffer, 8 * (i - 1) + 1, 8 * i))

\* One value taken from a buffer that holds a second, non-zero, one.
C6_Witness ==
    /\ unpacked.fn = "unpack_doubles"
    /\ unpacked.count = 1
    /\ Len(unpacked.byte_buffer) = 16
    /\ \E k \in 9..16 : unpacked.byte_buffer[k] # 0
    /\ unpacked.ret.ok
    /\ unpacked.ret.vals = <<packed.doubles[1]>>

(***************************************************************************)
(* C7: packUnsignedIntegers(values, size) encodes each 32-bit value as 4   *)
(* bytes, least significant first, in input order; it zero-pads to exactly *)
(* size bytes when 4 * len(values) <= size and fails with a CapacityError  *)
(* when 4 * len(values) > size.                                            *)
(***************************************************************************)
C7_PackUnsignedIntegers ==
    upacked.fn = "pack_unsigned_integers" =>
        IF 4 * Len(upacked.uint) > upacked.size
        THEN upacked.ret = ValueError
        ELSE /\ upacked.ret.ok
             /\ Len(upacked.ret.buf) = upacked.size
             /\ \A i \in 1..Len(upacked.uint) :
                   LET b == SubSeq(upacked.ret.buf, 4 * (i - 1) + 1, 4 * i)
                   IN  /\ \A k \in 1..4 : b[k] \in 0..255
                       /\ b[1] + 256 * b[2] = upacked.uint[i].lo
                       /\ b[3] + 256 * b[4] = upacked.uint[i].hi
             /\ \A k \in (4 * Len(upacked.uint) + 1)..upacked.size :
                   upacked.ret.buf[k] = 0

C7_Witness ==
    /\ upacked.fn = "pack_unsigned_integers"
    /\ upacked.uint = <<[hi |-> 258, lo |-> 772], [hi |-> 0, lo |-> 1]>>
    /\ upacked.size = 10
    /\ upacked.ret.ok
    /\ upacked.ret.buf = <<4, 3, 2, 1, 1, 0, 0, 0, 0, 0>>

(***************************************************************************)
(* Tolerance notation parser: parse_tolerance_value.                       *)
(*                                                                         *)
(* A string is the sequence of its characters.  A number is the exact      *)
(* decimal [m |-> m, e |-> e] = m / 10^e (e >= 0): the rounding of binary  *)
(* floating point is left out.  float() and int() are modelled for         *)
(* strings of signs, digits, '.' and parentheses: the characters of the    *)
(* tokens below.                                                           *)
(***************************************************************************)
DigitChars == {"0", "1", "2", "3", "4", "5", "6", "7", "8", "9"}

DigitValue(c) ==
    CASE c = "0" -> 0 [] c = "1" -> 1 [] c = "2" -> 2 [] c = "3" -> 3
      [] c = "4" -> 4 [] c = "5" -> 5 [] c = "6" -> 6 [] c = "7" -> 7
      [] c = "8" -> 8 [] c = "9" -> 9

Alphabet == {"1", "2", ".", "(", ")", "-"}

\* Tokens of the specification's examples and of the claims.
ExampleTokens ==
    { <<"1", ".", "2", "3", "(", "4", ")">>,
      <<"5", "(", "2", ")">>,
      <<"b", "a", "d">>,
      <<"1", ".", "0", "(", "1", ")">>,
      <<"2", ".", "0", "(", "1", ")">>,
      <<"5", "(", "-", "2", ")">>,
      <<"5", "(", "+", "2", ")">>,
      <<"1", "(", "2", ")", ")">>,
      <<"1", "(", ")", "2">> }

Tokens == ListsOf(Alphabet, MaxTokLen) \cup ExampleTokens

\* c in s
Contains(s, c) == \E i \in 1..Len(s) : s[i] = c

\* The index of the first c in s (c in s).
IndexOf(s, c) == CHOOSE i \in 1..Len(s) : s[i] = c /\ \A j \in 1..(i - 1) : s[j] # c

\* s.split(c)
RECURSIVE Split(_, _)
Split(s, c) ==
    IF ~Contains(s, c)
    THEN <<s>>
    ELSE LET i == IndexOf(s, c)
         IN  <<SubSeq(s, 1, i - 1)>> \o Split(SubSeq(s, i + 1, Len(s)), c)

\* s.lstrip(c), s.rstrip(c), s.strip(c)
RECURSIVE LStrip(_, _)
LStrip(s, c) == IF s # <<>> /\ Head(s) = c THEN LStrip(Tail(s), c) ELSE s

RECURSIVE RStrip(_, _)
RStrip(s, c) ==
    IF s # <<>> /\ s[Len(s)] = c THEN RStrip(SubSeq(s, 1, Len(s) - 1), c) ELSE s

Strip(s, c) == RStrip(LStrip(s, c), c)

AllDigits(s) == \A i \in 1..Len(s) : s[i] \in DigitChars

\* The number a string of digits writes.
RECURSIVE NatOf(_)
NatOf(s) ==
    IF s = <<>> THEN 0
    ELSE 10 * NatOf(SubSeq(s, 1, Len(s) - 1)) + DigitValue(s[Len(s)])

RECURSIVE Pow(_, _)
Pow(b, n) == IF n = 0 THEN 1 ELSE b * Pow(b, n - 1)

\* A leading sign.
HasSign(s) == s # <<>> /\ Head(s) \in {"+", "-"}
Unsigned(s) == IF HasSign(s) THEN Tail(s) ELSE s
SignOf(s) == IF s # <<>> /\ Head(s) = "-" THEN -1 ELSE 1

\* int(s): an optional sign and at least one digit.
py_int(s) ==
    LET digits == Unsigned(s)
    IN  IF digits # <<>> /\ AllDigits(digits)
        THEN [ok |-> TRUE, val |-> SignOf(s) * NatOf(digits)]
        ELSE ValueError

\* float(s): an optional sign, digits with at most one '.', at least one
\* digit.
py_float(s) ==
    LET body == Unsigned(s)
        parts == Split(body, ".")
        digits == Concat(parts)
    IN  IF Len(parts) <= 2 /\ digits # <<>> /\ AllDigits(digits)
        THEN [ok |-> TRUE,
              val |-> [m |-> SignOf(s) * NatOf(digits),
                       e |-> IF Len(parts) = 2 THEN Len(parts[2]) ELSE 0]]
        ELSE ValueError

\* Exact decimal arithmetic.
DecMax(a, b) == IF a >= b THEN a ELSE b
DecAt(x, e) == x.m * Pow(10, e - x.e)
DecAdd(x, y) ==
    LET e == DecMax(x.e, y.e) IN [m |-> DecAt(x, e) + DecAt(y, e), e |-> e]
DecSub(x, y) ==
    LET e == DecMax(x.e, y.e) IN [m |-> DecAt(x, e) - DecAt(y, e), e |-> e]
DecMulInt(n, x) == [m |-> n * x.m, e |-> x.e]
DecEq(x, y) == DecAt(x, DecMax(x.e, y.e)) = DecAt(y, DecMax(x.e, y.e))
DecLeq(x, y) == DecAt(x, DecMax(x.e, y.e)) <= DecAt(y, DecMax(x.e, y.e))

\* 10 ** order
pow10(order) ==
    IF order >= 0 THEN [m |-> Pow(10, order), e |-> 0] ELSE [m |-> 1, e |-> -order]

\* A mutant of smallest_order: the sign of the order is lost.
smallest_order_positive(value_str) ==
    IF Contains(value_str, ".")
    THEN Len(Split(value_str, ".")[2])
    ELSE 0

\* "Find smallest order": value_str holds at most one '.' here.
smallest_order(value_str) ==
    IF Contains(value_str, ".")
    THEN -(Len(Split(value_str, ".")[2]))
    ELSE 0

parse_tolerance_value(value_with_uncertainty) ==
    IF ~Contains(value_with_uncertainty, "(") \/ ~Contains(value_with_uncertainty, ")")
    THEN ValueError
    ELSE
    LET parts == Split(value_with_uncertainty, "(")
    IN  IF Len(parts) # 2
        THEN ValueError       \* unpacking into value_str, uncertainty_str
        ELSE
        LET value_str == parts[1]
            uncertainty_str == Strip(parts[2], ")")
        IN  IF Contains(value_str, ".") /\ Len(Split(value_str, ".")) # 2
            THEN ValueError   \* unpacking into _, decimal_part
            ELSE
            LET order == smallest_order(value_str)
                value == py_float(value_str)
                uncertainty == py_int(uncertainty_str)
            IN  IF ~value.ok
                THEN ValueError
                ELSE IF ~uncertainty.ok
                THEN ValueError
                ELSE [ok |-> TRUE,
                      min |-> DecSub(value.val, DecMulInt(uncertainty.val, pow10(order))),
                      max |-> DecAdd(value.val, DecMulInt(uncertainty.val, pow10(order)))]

ParseToleranceValue ==
    /\ parsed = None
    /\ \E token \in Tokens :
        parsed' = [fn |-> "parse_tolerance_value", arg |-> token,
                   ret |-> parse_tolerance_value(token)]
    /\ UNCHANGED <<sd_calls, xfer, byteorder, packed, unpacked, upacked, main_vars>>

InitParser ==
    /\ sd_calls = <<>>
    /\ xfer = None
    /\ byteorder = "little"
    /\ packed = None
    /\ unpacked = None
    /\ upacked = None
    /\ parsed = None
    /\ MainNotStarted

NextParser == ParseToleranceValue

SpecParser == InitParser /\ [][NextParser]_vars

\* The number of c's in s.
CountOf(s, c) == Cardinality({i \in 1..Len(s) : s[i] = c})

(***************************************************************************)
(* C8: parseTolerance accepts a token only if it holds exactly one '(' and *)
(* exactly one ')': every other token, "1(2))" and "1()2" included, fails  *)
(* with a FormatError.                                                     *)
(***************************************************************************)
C8_ExactlyOneParenthesisPair ==
    (parsed.fn = "parse_tolerance_value" /\ parsed.ret.ok) =>
        /\ CountOf(parsed.arg, "(") = 1
        /\ CountOf(parsed.arg, ")") = 1

\* What the code does on the claim's own examples.
C8_Accepted ==
    parsed.fn = "parse_tolerance_value" =>
        /\ parsed.arg = <<"1", "(", "2", ")", ")">> =>
              /\ parsed.ret.ok
              /\ DecEq(parsed.ret.min, [m |-> -1, e |-> 0])
              /\ DecEq(parsed.ret.max, [m |-> 3, e |-> 0])
        /\ parsed.arg = <<"1", "(", ")", "2">> =>
              /\ parsed.ret.ok
              /\ DecEq(parsed.ret.min, [m |-> -1, e |-> 0])
              /\ DecEq(parsed.ret.max, [m |-> 3, e |-> 0])
        /\ CountOf(parsed.arg, "(") # 1 => parsed.ret = ValueError
        /\ CountOf(parsed.arg, ")") = 0 => parsed.ret = ValueError

(***************************************************************************)
(* C9: for a well-formed token <number>(<digits>), parseTolerance returns  *)
(* min = value - u * 10^order and max = value + u * 10^order, u the        *)
(* integer in parentheses, order = -(number of digits after the '.') or 0  *)
(* without a '.': with V the integer the number's digits write and d the   *)
(* number of digits after the '.', min = (V - u) / 10^d and                *)
(* max = (V + u) / 10^d.  "1.23(4)" gives [1.19, 1.27], "5(2)" gives       *)
(* [3, 7].                                                                 *)
(***************************************************************************)
\* <number>: an optional '-', digits with at most one '.', a digit at least.
C9_IsNumber(s) ==
    LET body == IF s # <<>> /\ Head(s) = "-" THEN Tail(s) ELSE s
    IN  /\ \A i \in 1..Len(body) : body[i] \in DigitChars \cup {"."}
        /\ CountOf(body, ".") <= 1
        /\ \E i \in 1..Len(body) : body[i] \in DigitChars

C9_WellFormed(token) ==
    /\ CountOf(token, "(") = 1
    /\ token[Len(token)] = ")"
    /\ LET p == IndexOf(token, "(")
       IN  /\ C9_IsNumber(SubSeq(token, 1, p - 1))
           /\ p + 1 <= Len(token) - 1
           /\ \A i \in (p + 1)..(Len(token) - 1) : token[i] \in DigitChars

\* The digits of s, in order.
C9_DigitsOf(s) == SelectSeq(s, LAMBDA c : c \in DigitChars)

\* d: the number of characters of s after its '.'.
C9_Places(s) == IF Contains(s, ".") THEN Len(s) - IndexOf(s, ".") ELSE 0

C9_IntervalOfWellFormed ==
    (parsed.fn = "parse_tolerance_value" /\ C9_WellFormed(parsed.arg)) =>
        LET p == IndexOf(parsed.arg, "(")
            number == SubSeq(parsed.arg, 1, p - 1)
            V == (IF Head(number) = "-" THEN -1 ELSE 1) * NatOf(C9_DigitsOf(number))
            d == C9_Places(number)
            u == NatOf(SubSeq(parsed.arg, p + 1, Len(parsed.arg) - 1))
        IN  /\ parsed.ret.ok
            /\ DecEq(parsed.ret.min, [m |-> V - u, e |-> d])
            /\ DecEq(parsed.ret.max, [m |-> V + u, e |-> d])
            /\ parsed.arg = <<"1", ".", "2", "3", "(", "4", ")">> =>
                  /\ DecEq(parsed.ret.min, [m |-> 119, e |-> 2])
                  /\ DecEq(parsed.ret.max, [m |-> 127, e |-> 2])
            /\ parsed.arg = <<"5", "(", "2", ")">> =>
                  /\ DecEq(parsed.ret.min, [m |-> 3, e |-> 0])
                  /\ DecEq(parsed.ret.max, [m |-> 7, e |-> 0])

C9_Witness ==
    /\ parsed.fn = "parse_tolerance_value"
    /\ parsed.arg = <<"1", ".", "2", "3", "(", "4", ")">>
    /\ C9_WellFormed(parsed.arg)
    /\ parsed.ret.ok
    /\ parsed.ret.min = [m |-> 119, e |-> 2]
    /\ parsed.ret.max = [m |-> 127, e |-> 2]

(***************************************************************************)
(* C10: the uncertainty parseTolerance accepts is a non-negative integer:  *)
(* a token whose parenthesised part is not a plain sequence of decimal     *)
(* digits (a sign, as in "5(-2)") fails with a FormatError, so every       *)
(* interval returned has min <= max.                                       *)
(***************************************************************************)
C10_NonNegativeUncertainty ==
    (parsed.fn = "parse_tolerance_value" /\ parsed.ret.ok) =>
        /\ \A i \in (IndexOf(parsed.arg, "(") + 1)..Len(parsed.arg) :
              parsed.arg[i] \in DigitChars \cup {")"}
        /\ DecLeq(parsed.ret.min, parsed.ret.max)

\* What the code does on the claim's own example.
C10_Accepted ==
    (parsed.fn = "parse_tolerance_value"
        /\ parsed.arg = <<"5", "(", "-", "2", ")">>) =>
            /\ parsed.ret.ok
            /\ DecEq(parsed.ret.min, [m |-> 7, e |-> 0])
            /\ DecEq(parsed.ret.max, [m |-> 3, e |-> 0])

(***************************************************************************)
(* main(): the status query and the command loop.                          *)
(*                                                                         *)
(* The floats parse_tolerance_value returns reach struct.pack as binary64  *)
(* values: float_of_dec is the binary64 nearest to an exact decimal        *)
(* (round half to even), for non-zero values in the normal range.          *)
(***************************************************************************)
Abs(n) == IF n < 0 THEN -n ELSE n

\* num / den scaled by powers of two into [1, 2): num / den * 2^k is kept.
RECURSIVE Normalise(_, _, _)
Normalise(num, den, k) ==
    IF num >= 2 * den THEN Normalise(num, 2 * den, k + 1)
    ELSE IF num < den THEN Normalise(2 * num, den, k - 1)
    ELSE [num |-> num, den |-> den, k |-> k]

\* `places` followed by the next n binary places of rem / den (rem < den),
\* and what is left.
RECURSIVE BinaryPlaces(_, _, _, _)
BinaryPlaces(rem, den, n, places) ==
    IF n = 0 THEN [bits |-> places, rem |-> rem]
    ELSE IF 2 * rem >= den
    THEN BinaryPlaces(2 * rem - den, den, n - 1, places \o <<1>>)
    ELSE BinaryPlaces(2 * rem, den, n - 1, places \o <<0>>)

\* bits + 1; carry when every bit was set.
Increment(bits) ==
    IF \A i \in 1..Len(bits) : bits[i] = 1
    THEN [bits |-> [i \in 1..Len(bits) |-> 0], carry |-> 1]
    ELSE LET j == CHOOSE i \in 1..Len(bits) :
                      bits[i] = 0 /\ \A h \in (i + 1)..Len(bits) : bits[h] = 1
         IN  [bits |-> [i \in 1..Len(bits) |->
                           IF i < j THEN bits[i] ELSE IF i = j THEN 1 ELSE 0],
              carry |-> 0]

\* The number a sequence of bits writes, most significant first.
RECURSIVE BitsValue(_)
BitsValue(bits) ==
    IF bits = <<>> THEN 0
    ELSE 2 * BitsValue(SubSeq(bits, 1, Len(bits) - 1)) + bits[Len(bits)]

float_of_dec(x) ==
    IF x.m = 0
    THEN [sign |-> 0, exp |-> 0, frac |-> <<0, 0, 0, 0, 0, 0, 0>>]
    ELSE LET n == Normalise(Abs(x.m), Pow(10, x.e), 0)
             p == BinaryPlaces(n.num - n.den, n.den, 52, <<>>)
             up == \/ 2 * p.rem > n.den
                   \/ (2 * p.rem = n.den /\ p.bits[52] = 1)
             r == IF up THEN Increment(p.bits) ELSE [bits |-> p.bits, carry |-> 0]
         IN  [sign |-> IF x.m < 0 THEN 1 ELSE 0,
              exp |-> 1023 + n.k + r.carry,
              frac |-> <<BitsValue(SubSeq(r.bits, 1, 4))>> \o
                       [i \in 1..6 |-> BitsValue(SubSeq(r.bits, 8 * i - 3, 8 * i + 4))]]

kCalculateNoCommand == 0
kCalculateAddition == 1
kCalculateSubtraction == 2
kCalculateMultiplication == 3
kCalculateDivision == 4

KeyError == [ok |-> FALSE, err |-> "KeyError"]

\* A mutant of calculation_commands: an unknown token gives "no command",
\* as calculation_commands.get(token, kCalculateNoCommand) would.
calculation_commands_get(token) ==
    CASE token = <<"a", "d", "d">> -> [ok |-> TRUE, val |-> kCalculateAddition]
      [] token = <<"s", "u", "b">> -> [ok |-> TRUE, val |-> kCalculateSubtraction]
      [] token = <<"m", "u", "l">> -> [ok |-> TRUE, val |-> kCalculateMultiplication]
      [] token = <<"d", "i", "v">> -> [ok |-> TRUE, val |-> kCalculateDivision]
      [] OTHER -> [ok |-> TRUE, val |-> kCalculateNoCommand]

\* calculation_commands[token]
calculation_commands(token) ==
    CASE token = <<"a", "d", "d">> -> [ok |-> TRUE, val |-> kCalculateAddition]
      [] token = <<"s", "u", "b">> -> [ok |-> TRUE, val |-> kCalculateSubtraction]
      [] token = <<"m", "u", "l">> -> [ok |-> TRUE, val |-> kCalculateMultiplication]
      [] token = <<"d", "i", "v">> -> [ok |-> TRUE, val |-> kCalculateDivision]
      [] OTHER -> KeyError

\* " ".join(tokens)
RECURSIVE Join(_)
Join(tokens) ==
    IF tokens = <<>> THEN <<>>
    ELSE IF Len(tokens) = 1 THEN tokens[1]
    ELSE tokens[1] \o <<" ">> \o Join(Tail(tokens))

\* The command tokens typed: the four commands and an unknown one.
CommandTokens ==
    { <<"a", "d", "d">>, <<"s", "u", "b">>, <<"m", "u", "l">>,
      <<"d", "i", "v">>, <<"p", "o", "w">> }

\* The operand tokens typed: "1.0(1)", "2.0(1)", "5(-2)" and "bad".
OperandTokens ==
    { <<"1", ".", "0", "(", "1", ")">>,
      <<"2", ".", "0", "(", "1", ")">>,
      <<"5", "(", "-", "2", ")">>,
      <<"b", "a", "d">> }

\* The lines input() returns: three tokens, and lines that do not split
\* into three (empty, two tokens, four tokens, a doubled space).
Lines ==
    { Join(<<c, a, b>>) : c \in CommandTokens, a \in OperandTokens, b \in OperandTokens }
    \cup { <<>>,
           Join(<<<<"a", "d", "d">>, <<"1", ".", "0", "(", "1", ")">>>>),
           Join(<<<<"a", "d", "d">>, <<"1", ".", "0", "(", "1", ")">>,
                  <<"2", ".", "0", "(", "1", ")">>, <<"5", "(", "2", ")">>>>),
           Join(<<<<"a", "d", "d">>, <<>>, <<"1", ".", "0", "(", "1", ")">>,
                  <<"2", ".", "0", "(", "1", ")">>>>) }

\* A mutant of unpack_three: the tokens after the third are dropped.
unpack_three_lenient(parts) ==
    IF Len(parts) < 3 THEN ValueError
    ELSE [ok |-> TRUE, args_command |-> parts[1],
          args_argument_a |-> parts[2], args_argument_b |-> parts[3]]

\* args_command, args_argument_a, args_argument_b = parts
unpack_three(parts) ==
    IF Len(parts) # 3 THEN ValueError
    ELSE [ok |-> TRUE, args_command |-> parts[1],
          args_argument_a |-> parts[2], args_argument_b |-> parts[3]]

\* command.split(" ") unpacked into three names.
split_command(line) == unpack_three(Split(line, " "))

\* A mutant of operand_list: minimum and maximum change places.
operand_list_swapped(args) ==
    << args.arg_a_max, args.arg_a_min, args.arg_b_max, args.arg_b_min >>

\* [arg_a_min, arg_a_max, arg_b_min, arg_b_max]
operand_list(args) ==
    << args.arg_a_min, args.arg_a_max, args.arg_b_min, args.arg_b_max >>

\* C0_microSD.MOSI_BUFFER_SIZE_BYTES on the interfaces the model runs with.
Capacities == {24, 32, 64}

\* What get_status leaves in C0_microSD.configuration.
Configurations == {"soc", "bootloader", "signaloid-core"}

\* A mutant of in_soc_mode: every configuration passes.
in_soc_mode_any(config) == TRUE

\* The test of line 265.
in_soc_mode(config) == config = "soc"

\* The bytes that follow a length prefix: payload, then padding.
FrameRest(n) == SubSeq(<<170, 187, 204, 221, 238, 17, 34, 51, 68>>, 1, n)

\* The buffers calculate_command returns: a 4-byte prefix and 0,
\* MaxFrameRest - 1 or MaxFrameRest bytes after it, the prefix below, at and
\* above their number; and buffers shorter than a prefix.
ResultBuffers ==
    { <<l, 0, 0, 0>> \o FrameRest(n) :
        l \in 0..(MaxFrameRest + 1), n \in {0, MaxFrameRest - 1, MaxFrameRest} }
    \cup { p \o FrameRest(MaxFrameRest) : p \in {<<0, 1, 0, 0>>, <<2, 0, 0, 255>>} }
    \cup { <<>>, <<5>>, <<5, 0, 0>> }

\* A mutant of struct_unpack_I: most significant byte first.
struct_unpack_I_bigendian(order, buffer) ==
    IF Len(buffer) # 4
    THEN [ok |-> FALSE, err |-> "struct.error"]
    ELSE [ok |-> TRUE,
          val |-> [hi |-> buffer[2] + 256 * buffer[1],
                   lo |-> buffer[4] + 256 * buffer[3]]]

\* struct.unpack("I", buffer)[0]: 4 bytes in the platform's byte order.
struct_unpack_I(order, buffer) ==
    IF Len(buffer) # 4
    THEN [ok |-> FALSE, err |-> "struct.error"]
    ELSE LET le == IF order = "big" THEN Reverse(buffer) ELSE buffer
         IN  [ok |-> TRUE,
              val |-> [hi |-> le[3] + 256 * le[4], lo |-> le[1] + 256 * le[2]]]

\* s[:n] for a 32-bit n held as halves.
SliceTo(s, n) == IF n.hi > 0 THEN s ELSE PySlice(s, 0, n.lo)

\* Lines 298-303: the length prefix is read and the buffer cut to it.
result_payload(order, buffer) ==
    LET returned_bytes == struct_unpack_I(order, PySlice(buffer, 0, 4))
    IN  IF ~returned_bytes.ok
        THEN returned_bytes
        ELSE [ok |-> TRUE,
              buf |-> SliceTo(SubSeq(buffer, 5, Len(buffer)), returned_bytes.val)]

\* A mutant of NextStatement: the command is issued before the operand
\* buffer is written.
NextStatementDispatchFirst(at) ==
    CASE at = "input" -> "parse"
      [] at = "parse" -> "pack"
      [] at = "pack" -> "calculate"
      [] at = "calculate" -> "write"
      [] at = "write" -> "decode"
      [] at = "decode" -> "distribution"
      [] at = "distribution" -> "continue"
      [] at = "except" -> "continue"

\* The statement group that follows `at` in the loop body when `at` raised
\* nothing (lines 276-321).
NextStatement(at) ==
    CASE at = "input" -> "parse"
      [] at = "parse" -> "pack"
      [] at = "pack" -> "write"
      [] at = "write" -> "calculate"
      [] at = "calculate" -> "decode"
      [] at = "decode" -> "distribution"
      [] at = "distribution" -> "continue"
      [] at = "except" -> "continue"

\* A name that has been assigned: a name not yet assigned is None.
Bound(v) == [val |-> v]

\* A step of command ncmd on the device, the codec or the parser.
Step(ev) == [cmd |-> ncmd, ev |-> ev]

\* `raise`: control goes to the except clause of line 315.
Raise(at, err) ==
    /\ error' = [at |-> at, err |-> err]
    /\ pc' = "except"

codec_vars == <<sd_calls, xfer, byteorder, packed, unpacked, upacked, parsed>>

\* Lines 259-272: the status query.
GetStatus ==
    /\ pc = "status"
    /\ \/ /\ configuration' = configuration      \* get_status raises
          /\ printed' = "error"
          /\ pc' = "returned"
          /\ ncmd' = ncmd
       \/ \E config \in Configurations :
            /\ configuration' = Bound(config)
            /\ IF in_soc_mode(config)
               THEN /\ printed' = "status"
                    /\ pc' = "input"
                    /\ ncmd' = 1
               ELSE /\ printed' = "error"
                    /\ pc' = "returned"
                    /\ ncmd' = ncmd
    /\ UNCHANGED <<codec_vars, capacity, command, operands, mosi_data,
                   result_buffer, payload, opcode, error, steps>>

\* Lines 277-281: the prompt, and the line split into three names.
InputCommand ==
    /\ pc = "input"
    /\ \E line \in Lines :
        /\ command' = Bound(line)
        /\ printed' = "prompt"
        /\ IF split_command(line).ok
           THEN pc' = NextStatement("input") /\ error' = error
           ELSE Raise("input", "ValueError")
    /\ UNCHANGED <<codec_vars, configuration, capacity, operands, mosi_data,
                   result_buffer, payload, opcode, steps, ncmd>>

\* Lines 284-285: the two operands are parsed, A first.
ParseInputs ==
    /\ pc = "parse"
    /\ LET args == split_command(command.val)
           a == parse_tolerance_value(args.args_argument_a)
           b == parse_tolerance_value(args.args_argument_b)
       IN  IF a.ok /\ b.ok
           THEN /\ operands' = [arg_a_min |-> a.min, arg_a_max |-> a.max,
                                arg_b_min |-> b.min, arg_b_max |-> b.max]
                /\ pc' = NextStatement("parse")
                /\ error' = error
           ELSE /\ operands' = operands
                /\ Raise("parse", "ValueError")
    /\ UNCHANGED <<codec_vars, configuration, capacity, command, mosi_data,
                   result_buffer, payload, opcode, steps, ncmd, printed>>

\* Lines 287-291: the operand buffer is encoded.
PackOperands ==
    /\ pc = "pack"
    /\ printed' = "sending"
    /\ LET doubles == [i \in 1..4 |-> float_of_dec(operand_list(operands)[i])]
           r == pack_doubles(byteorder, doubles, capacity)
       IN  IF r.ok
           THEN /\ mosi_data' = Bound(r.buf)
                /\ steps' = Append(steps, Step("encode"))
                /\ pc' = NextStatement("pack")
                /\ error' = error
           ELSE /\ mosi_data' = mosi_data
                /\ steps' = steps
                /\ Raise("pack", r.err)
    /\ UNCHANGED <<codec_vars, configuration, capacity, command, operands,
                   result_buffer, payload, opcode, ncmd>>

\* Line 292: the operand buffer is written; the device may fail.
WriteOperands ==
    /\ pc = "write"
    /\ steps' = Append(steps, Step("write"))
    /\ \/ pc' = NextStatement("write") /\ error' = error
       \/ Raise("write", "TransportError")
    /\ UNCHANGED <<codec_vars, configuration, capacity, command, operands,
                   mosi_data, result_buffer, payload, opcode, ncmd, printed>>

\* Lines 295-296: the opcode is looked up, then the command is issued; the
\* device answers with a result buffer or fails.
Calculate ==
    /\ pc = "calculate"
    /\ LET code == calculation_commands(split_command(command.val).args_command)
       IN  IF ~code.ok
           THEN /\ Raise("calculate", code.err)
                /\ UNCHANGED <<opcode, steps, result_buffer>>
           ELSE /\ opcode' = Bound(code.val)
                /\ steps' = Append(steps, Step("dispatch"))
                /\ \/ \E buffer \in ResultBuffers :
                        /\ result_buffer' = Bound(buffer)
                        /\ pc' = NextStatement("calculate")
                        /\ error' = error
                   \/ /\ result_buffer' = result_buffer
                      /\ Raise("calculate", "TransportError")
    /\ UNCHANGED <<codec_vars, configuration, capacity, command, operands,
                   mosi_data, payload, ncmd, printed>>

\* Lines 298-303: the result frame is decoded.
DecodeResult ==
    /\ pc = "decode"
    /\ LET r == result_payload(byteorder, result_buffer.val)
       IN  IF r.ok
           THEN /\ payload' = Bound(r.buf)
                /\ steps' = Append(steps, Step("decode"))
                /\ pc' = NextStatement("decode")
                /\ error' = error
           ELSE /\ payload' = payload
                /\ steps' = steps
                /\ Raise("decode", r.err)
    /\ UNCHANGED <<codec_vars, configuration, capacity, command, operands,
                   mosi_data, result_buffer, opcode, ncmd, printed>>

\* Lines 305-314: the payload is handed to DistributionalValue.parse, which
\* may refuse it, and the distribution is plotted.
ParseDistribution ==
    /\ pc = "distribution"
    /\ steps' = Append(steps, Step("parse"))
    /\ \/ /\ printed' = "plotting"
          /\ pc' = NextStatement("distribution")
          /\ error' = error
       \/ /\ printed' = "parsing"
          /\ Raise("distribution", "ParseError")
    /\ UNCHANGED <<codec_vars, configuration, capacity, command, operands,
                   mosi_data, result_buffer, payload, opcode, ncmd>>

\* Lines 315-318: the except clause.
Except ==
    /\ pc = "except"
    /\ printed' = "error"
    /\ pc' = NextStatement("except")
    /\ UNCHANGED <<codec_vars, configuration, capacity, command, operands,
                   mosi_data, result_buffer, payload, opcode, error, steps, ncmd>>

\* Lines 320-327: 'q' returns, anything else starts the next command.  The
\* locals of the command that ended are dead there: the model clears them.
Continue ==
    /\ pc = "continue"
    /\ \/ /\ pc' = "returned"                    \* res == 'q'
          /\ UNCHANGED <<command, operands, mosi_data, result_buffer, payload,
                         opcode, error, ncmd>>
       \/ /\ ncmd < MaxCommands
          /\ pc' = "input"
          /\ ncmd' = ncmd + 1
          /\ command' = None
          /\ operands' = None
          /\ mosi_data' = None
          /\ result_buffer' = None
          /\ payload' = None
          /\ opcode' = None
          /\ error' = None
    /\ printed' = "continue?"
    /\ UNCHANGED <<codec_vars, configuration, capacity, steps>>

InitMain ==
    /\ sd_calls = <<>>
    /\ xfer = None
    /\ byteorder = "little"
    /\ packed = None
    /\ unpacked = None
    /\ upacked = None
    /\ parsed = None
    /\ pc = "status"
    /\ configuration = None
    /\ capacity \in Capacities
    /\ command = None
    /\ operands = None
    /\ mosi_data = None
    /\ result_buffer = None
    /\ payload = None
    /\ opcode = None
    /\ error = None
    /\ steps = <<>>
    /\ ncmd = 0
    /\ printed = "clear"                      \* line 247

NextMain ==
    \/ GetStatus
    \/ InputCommand
    \/ ParseInputs
    \/ PackOperands
    \/ WriteOperands
    \/ Calculate
    \/ DecodeResult
    \/ ParseDistribution
    \/ Except
    \/ Continue

SpecMain == InitMain /\ [][NextMain]_vars

\* Command ncmd has made step ev.
StepMade(ev) == \E i \in 1..Len(steps) : steps[i] = [cmd |-> ncmd, ev |-> ev]

(***************************************************************************)
(* C11: a result frame whose length prefix L (bytes [0, 4), least          *)
(* significant first) has buffer.length < 4 + L fails with a FrameError:   *)
(* the command is aborted and no shortened payload reaches the             *)
(* distribution parser.                                                    *)
(***************************************************************************)
\* buffer.length < 4 + L, for a buffer that holds a prefix.
C11_FrameShort(buffer) ==
    /\ Len(buffer) >= 4
    /\ \/ buffer[3] + 256 * buffer[4] > 0
       \/ buffer[1] + 256 * buffer[2] > Len(buffer) - 4

C11_ShortFrameFails ==
    (result_buffer # None /\ C11_FrameShort(result_buffer.val)) =>
        /\ payload = None
        /\ ~StepMade("parse")
        /\ pc \in {"decode", "except", "continue", "returned"}
        /\ (pc # "decode" => error # None)

\* What the code does with a short frame: the payload is what is there.
C11_ShortFrameCut ==
    (result_buffer # None /\ C11_FrameShort(result_buffer.val) /\ payload # None) =>
        /\ payload.val = SubSeq(result_buffer.val, 5, Len(result_buffer.val))
        /\ error = None \/ error.at = "distribution"

(***************************************************************************)
(* C12: for a result frame with 4 + L <= buffer.length, L the unsigned     *)
(* 32-bit value of bytes [0, 4) least significant byte first, the decoded  *)
(* payload is bytes [4, 4 + L) of the buffer: L bytes, without the prefix  *)
(* and without the padding.                                                *)
(***************************************************************************)
C12_PayloadOfFrame ==
    (/\ result_buffer # None
     /\ Len(result_buffer.val) >= 4
     /\ ~C11_FrameShort(result_buffer.val)
     /\ pc \notin {"decode", "except"}) =>
        LET L == result_buffer.val[1] + 256 * result_buffer.val[2]
        IN  /\ payload # None
            /\ StepMade("decode")
            /\ Len(payload.val) = L
            /\ \A i \in 1..L : payload.val[i] = result_buffer.val[4 + i]
            /\ result_buffer.val = <<5, 0, 0, 0, 170, 187, 204, 221, 238, 17>> =>
                  payload.val = <<170, 187, 204, 221, 238>>

C12_Witness ==
    /\ pc = "distribution"
    /\ result_buffer = Bound(<<5, 0, 0, 0, 170, 187, 204, 221, 238, 17>>)
    /\ payload = Bound(<<170, 187, 204, 221, 238>>)

(***************************************************************************)
(* C13: for two well-formed operand tokens A and B and a capacity >= 32,   *)
(* the operand buffer written has exactly capacity bytes, holds the four   *)
(* doubles [min(A), max(A), min(B), max(B)] in bytes [0, 32) and zero in   *)
(* every byte from 32 on.                                                  *)
(***************************************************************************)
\* The interval of a well-formed token: (V - u) / 10^d, (V + u) / 10^d.
C13_Interval(token) ==
    LET p == IndexOf(token, "(")
        number == SubSeq(token, 1, p - 1)
        V == (IF Head(number) = "-" THEN -1 ELSE 1) * NatOf(C9_DigitsOf(number))
        d == C9_Places(number)
        u == NatOf(SubSeq(token, p + 1, Len(token) - 1))
    IN  << [m |-> V - u, e |-> d], [m |-> V + u, e |-> d] >>

C13_OperandBufferLayout ==
    (/\ StepMade("write")
     /\ capacity >= 32
     /\ Len(Split(command.val, " ")) = 3
     /\ C9_WellFormed(Split(command.val, " ")[2])
     /\ C9_WellFormed(Split(command.val, " ")[3])) =>
        LET want == C13_Interval(Split(command.val, " ")[2])
                        \o C13_Interval(Split(command.val, " ")[3])
        IN  /\ Len(mosi_data.val) = capacity
            /\ \A i \in 1..4 :
                  double_from_bytes(byteorder, SubSeq(mosi_data.val, 8 * i - 7, 8 * i))
                      = float_of_dec(want[i])
            /\ \A k \in 33..capacity : mosi_data.val[k] = 0

\* "add 1.0(1) 2.0(1)" with capacity 64: 0.9 is 0x3FECCCCCCCCCCCCD, 2.1 is
\* 0x4000CCCCCCCCCCCD.
C13_Witness ==
    /\ StepMade("write")
    /\ capacity = 64
    /\ command = Bound(Join(<< <<"a", "d", "d">>,
                               <<"1", ".", "0", "(", "1", ")">>,
                               <<"2", ".", "0", "(", "1", ")">> >>))
    /\ Len(mosi_data.val) = 64
    /\ SubSeq(mosi_data.val, 1, 8) = <<205, 204, 204, 204, 204, 204, 236, 63>>
    /\ SubSeq(mosi_data.val, 25, 32) = <<205, 204, 204, 204, 204, 204, 0, 64>>
    /\ mosi_data.val[33] = 0
    /\ mosi_data.val[64] = 0

(***************************************************************************)
(* C14: every opcode dispatched is in 1..4 and is the one the command      *)
(* token maps to (add 1, sub 2, mul 3, div 4); opcode 0 is never           *)
(* dispatched.                                                             *)
(***************************************************************************)
C14_OpcodeOfToken ==
    /\ StepMade("dispatch") => opcode # None
    /\ opcode # None =>
        LET token == Split(command.val, " ")[1]
        IN  /\ opcode.val \in 1..4
            /\ opcode.val # 0
            /\ token = <<"a", "d", "d">> => opcode.val = 1
            /\ token = <<"s", "u", "b">> => opcode.val = 2
            /\ token = <<"m", "u", "l">> => opcode.val = 3
            /\ token = <<"d", "i", "v">> => opcode.val = 4
            /\ token \in {<<"a", "d", "d">>, <<"s", "u", "b">>,
                          <<"m", "u", "l">>, <<"d", "i", "v">>}

C14_Witness ==
    /\ StepMade("dispatch")
    /\ Split(command.val, " ")[1] = <<"d", "i", "v">>
    /\ opcode = Bound(4)

(***************************************************************************)
(* C15: a command makes its steps in the order encode, write, dispatch,    *)
(* decode, parse, each at most once, and the steps of a command all come   *)
(* before those of the next: at most one command is in flight.             *)
(***************************************************************************)
C15_Order == <<"encode", "write", "dispatch", "decode", "parse">>

C15_StepsOf(c) == SelectSeq(steps, LAMBDA st : st.cmd = c)

C15_Sequential ==
    /\ \A i \in 1..Len(steps) : steps[i].cmd \in 1..ncmd
    /\ \A i \in 1..Len(steps) : \A j \in i..Len(steps) : steps[i].cmd <= steps[j].cmd
    /\ \A c \in 1..ncmd :
          LET mine == C15_StepsOf(c)
          IN  /\ Len(mine) <= 5
              /\ \A i \in 1..Len(mine) : mine[i].ev = C15_Order[i]

\* A whole command, then the operand buffer of the next one written.
C15_Witness ==
    /\ ncmd = 2
    /\ Len(C15_StepsOf(1)) = 5
    /\ Len(steps) = 7
    /\ steps[6] = [cmd |-> 2, ev |-> "encode"]
    /\ steps[7] = [cmd |-> 2, ev |-> "write"]

(***************************************************************************)
(* C16: when an operand token is malformed (the parser raises) or the line *)
(* does not split into exactly three tokens, the command is abandoned with *)
(* no operand-buffer write and no opcode dispatch, an error message is     *)
(* shown, and control returns to the loop, which takes a fresh command     *)
(* unless the user answers 'q'.                                            *)
(***************************************************************************)
C16_BadLine(line) ==
    LET parts == Split(line, " ")
    IN  \/ Len(parts) # 3
        \/ ~parse_tolerance_value(parts[2]).ok
        \/ ~parse_tolerance_value(parts[3]).ok

C16_Abandoned ==
    (command # None /\ C16_BadLine(command.val)) =>
        /\ ~StepMade("encode")
        /\ ~StepMade("write")
        /\ ~StepMade("dispatch")
        /\ mosi_data = None
        /\ opcode = None
        /\ pc \in {"parse", "except", "continue", "returned"}
        /\ (pc = "continue" => printed = "error" /\ error.err = "ValueError")

C16_BackToLoop ==
    (pc = "continue" /\ C16_BadLine(command.val)) =>
        \/ pc' = "returned"
        \/ /\ pc' = "input"
           /\ ncmd' = ncmd + 1
           /\ command' = None
           /\ steps' = steps

C16_MalformedAbandoned == []C16_Abandoned /\ [][C16_BackToLoop]_vars

\* A malformed operand ended the first command and the loop is at the
\* prompt of the second.
C16_Witness ==
    /\ pc = "continue"
    /\ C16_BadLine(command.val)
    /\ Len(Split(command.val, " ")) = 3
    /\ error = [at |-> "parse", err |-> "ValueError"]
    /\ printed = "error"
    /\ steps = <<>>

(***************************************************************************)
(* C17: a command whose command token is not add, sub, mul or div is       *)
(* rejected before anything is sent to the device: an operand-buffer write *)
(* is followed by an opcode dispatch for the same command.                 *)
(***************************************************************************)
C17_KnownCommand(line) ==
    Split(line, " ")[1] \in {<<"a", "d", "d">>, <<"s", "u", "b">>,
                             <<"m", "u", "l">>, <<"d", "i", "v">>}

C17_WriteThenDispatch ==
    /\ (command # None /\ ~C17_KnownCommand(command.val)) => ~StepMade("write")
    /\ (/\ pc \in {"except", "continue", "returned"}
        /\ StepMade("write")
        /\ error # [at |-> "write", err |-> "TransportError"]) =>
            StepMade("dispatch")

\* What the code does with an unknown command token: the operand buffer is
\* written, then the lookup raises KeyError.
C17_UnknownCommandWritten ==
    (/\ command # None
     /\ ~C17_KnownCommand(command.val)
     /\ pc \in {"continue", "returned"}
     /\ ~C16_BadLine(command.val)
     /\ mosi_data # None
     /\ error # None
     /\ error.at # "write") =>
        /\ StepMade("write")
        /\ ~StepMade("dispatch")
        /\ error = [at |-> "calculate", err |-> "KeyError"]

(***************************************************************************)
(* C18: no operand buffer is written and no opcode is dispatched unless    *)
(* the status query succeeded and reported "soc"; when it raises or        *)
(* reports another configuration, main prints the error and returns        *)
(* without entering the command loop.                                      *)
(***************************************************************************)
C18_SocModeOnly ==
    /\ (steps # <<>> \/ command # None \/ ncmd > 0
            \/ pc \notin {"status", "returned"}) => configuration = Bound("soc")
    /\ (pc # "status" /\ configuration # Bound("soc")) =>
        /\ pc = "returned"
        /\ printed = "error"
        /\ steps = <<>>
        /\ ncmd = 0
        /\ command = None

C18_Witness ==
    /\ pc = "returned"
    /\ configuration = Bound("bootloader")
    /\ printed = "error"
    /\ steps = <<>>

=============================================================================
